---- MODULE Spec2Model ----
(***************************************************************************)
(* RandomForestWithInstances (smac/epm/rf_with_instances.py): the wrapper  *)
(* around the pyrfr regression forest.  The model keeps the wrapper's      *)
(* attributes (types, instance_features, data, rf, hypers, var_threshold), *)
(* one action per public method, and the operation last performed with    *)
(* its outcome.                                                            *)
(*                                                                         *)
(* Numbers.  A float is a record [nan, val]; val counts units of 5e-6 for  *)
(* variances, so var_threshold = 10 ** -5 is 2.  An ndarray is a record    *)
(* [shape, data]; for a matrix, data is the sequence of its rows.          *)
(***************************************************************************)
EXTENDS Integers, Sequences, FiniteSets, TLC

VARIABLES ctor, types, instance_features, hypers, var_thr, data, rf,
          trained_with, last

vars == <<ctor, types, instance_features, hypers, var_thr, data, rf,
          trained_with, last>>

model_vars == <<types, instance_features, hypers, var_thr, data, rf>>

(* ------------------------------ bounds --------------------------------- *)

\* rows of a query matrix X
MaxXRows == 1
\* rows of a configuration matrix
MaxConfigs == 1
\* configuration dimensions D of the types handed to the constructor
MaxD == 2
\* samples (rows of f_map, entries of y) of one train call
MaxPts == 1

\* entries of X and of instance feature vectors
Vals == {0, 1}
\* entries of configurations
ConfigVals == {1}
\* target values
Targets == {3}

(* ------------------------------ floats --------------------------------- *)

F(v) == [nan |-> FALSE, val |-> v]

NaN == [nan |-> TRUE, val |-> 0]

\* a < b on floats: every comparison with NaN is false
FLess(a, b) == ~a.nan /\ ~b.nan /\ a.val < b.val

IsNaN(a) == a.nan

FAdd(a, b) == IF a.nan \/ b.nan THEN NaN ELSE F(a.val + b.val)

FSub(a, b) == IF a.nan \/ b.nan THEN NaN ELSE F(a.val - b.val)

FMul(a, b) == IF a.nan \/ b.nan THEN NaN ELSE F(a.val * b.val)

\* a / n for a count n; 0/0 is NaN.  Exact for the values of this model
\* (even numerators, n <= 2).
FDivN(a, n) == IF a.nan \/ n = 0 THEN NaN ELSE F(a.val \div n)

RECURSIVE FSum(_)
FSum(s) == IF s = <<>> THEN F(0) ELSE FAdd(Head(s), FSum(Tail(s)))

(* ----------------------------- ndarrays -------------------------------- *)

Arr2(rows, w) == [shape |-> <<Len(rows), w>>, data |-> rows]

Mat(n, w, S) == { Arr2(r, w) : r \in [1..n -> [1..w -> S]] }

\* np.zeros((n, w))
zeros2(n, w) == Arr2([i \in 1..n |-> [j \in 1..w |-> 0]], w)

\* np.zeros((n))
zeros1(n) == [j \in 1..n |-> 0]

\* y.flatten() of an (n, 1) column
flatten(y) == [i \in 1..Len(y.data) |-> y.data[i][1]]

\* reshape((-1, 1)) of a flat vector
reshape_col(v) == Arr2([i \in 1..Len(v) |-> <<v[i]>>], 1)

(* --------------------------- results, errors --------------------------- *)

NoArr == [shape |-> <<>>, data |-> <<>>]

NoMsg == [text |-> "", args |-> <<>>]

\* a returned (means, vars) pair; raw is what the forest reported as the
\* variances, before any floor
Ok(means, variances, raw) ==
    [kind |-> "ok", msg |-> NoMsg, means |-> means, vars |-> variances,
     raw |-> raw, forest_called |-> TRUE, ret |-> "means_vars"]

Raise(kind, msg, called) ==
    [kind |-> kind, msg |-> msg, means |-> NoArr, vars |-> NoArr,
     raw |-> <<>>, forest_called |-> called, ret |-> "none"]

NoError == Raise("none", NoMsg, FALSE)

RankMsg(X) == [text |-> "Expected 2d array, got %dd array!",
               args |-> <<Len(X.shape)>>]

ColsMsg(expected, X) ==
    [text |-> "Rows in X should have %d entries but have %d!",
     args |-> <<expected, X.shape[2]>>]

(* ------------------------------ __init__ ------------------------------- *)

\* arities of the configuration dimensions (0 = continuous)
Arities == {0}

TypesArgs == UNION { [1..d -> Arities] : d \in 1..MaxD }

\* the instance_features argument: None, or an (I, 1) matrix
NoneArg == [none |-> TRUE, arr |-> NoArr]

InstArgs ==
    {NoneArg} \cup
    { [none |-> FALSE, arr |-> a] :
        a \in Mat(0, 1, Vals) \cup Mat(1, 1, Vals)
              \cup {Arr2(<< <<0>>, <<1>> >>, 1)} }

\* the dummy instance is np.ones((1, 1)) instead of np.zeros((1, 1))
init_instance_features_ones(inst_arg) ==
    IF ~inst_arg.none THEN inst_arg.arr
    ELSE Arr2([i \in 1..1 |-> [j \in 1..1 |-> 1]], 1)

init_instance_features(inst_arg) ==
    IF ~inst_arg.none THEN inst_arg.arr ELSE zeros2(1, 1)

init_types(types_arg, inst_arg) ==
    IF ~inst_arg.none THEN types_arg ELSE types_arg \o zeros1(1)

Max(a, b) == IF a >= b THEN a ELSE b

\* the defaults of the keyword arguments; ratio_features = 5/6 and
\* eps_purity = 1e-8 are kept as fractions
init_hypers(types_arg) ==
    [num_trees |-> 10, max_num_nodes |-> 1000, do_bootstrapping |-> TRUE,
     n_points_per_tree |-> 0, ratio_features |-> <<5, 6>>,
     min_samples_split |-> 3, min_samples_leaf |-> 3, max_depth |-> 20,
     eps_purity |-> <<1, 100000000>>, seed |-> 42,
     max_features |-> Max(1, (Len(types_arg) * 5) \div 6)]

\* self.var_threshold = 10 ** -5, in units of 5e-6
var_threshold == 2

(* ------------------- the data container (pyrfr) ------------------------ *)

NoData == [set |-> FALSE, ncfg |-> 0, ninst |-> 0, configs |-> <<>>,
           instances |-> <<>>, points |-> <<>>]

\* the configurations are imported into the container of the previous call
NewContainer_append(configs) ==
    [set |-> TRUE, ncfg |-> configs.shape[2],
     ninst |-> instance_features.shape[2],
     configs |-> data.configs \o configs.data,
     instances |-> instance_features.data, points |-> <<>>]

\* mostly_continuous_data_with_instances_container(configs.shape[1],
\* instance_features.shape[1]), import_configurations, import_instances
NewContainer(configs) ==
    [set |-> TRUE, ncfg |-> configs.shape[2],
     ninst |-> instance_features.shape[2],
     configs |-> configs.data, instances |-> instance_features.data,
     points |-> <<>>]

\* add_data_points(f_map, y) refuses a sample whose configuration or
\* instance index is out of range, and f_map and y of different lengths
PointsOk(store, f_map, y) ==
    /\ Len(f_map.data) = Len(y)
    /\ \A i \in 1..Len(f_map.data) :
          /\ f_map.data[i][1] \in 0..(Len(store.configs) - 1)
          /\ f_map.data[i][2] \in 0..(Len(store.instances) - 1)

add_data_points(store, f_map, y) ==
    [store EXCEPT !.points =
        [i \in 1..Len(y) |->
            [c |-> f_map.data[i][1], i |-> f_map.data[i][2], y |-> y[i]]]]

StoreWidth(store) == store.ncfg + store.ninst

(* ------------------------- the forest (pyrfr) -------------------------- *)

Unfitted == [fitted |-> FALSE, on |-> NoData, variant |-> 0]

\* (mean, variance) pairs a forest may report: the variance can be NaN,
\* negative, zero, the threshold, or above it
LeafTable ==
    << [mean |-> F(0), var |-> NaN],  [mean |-> F(2), var |-> F(-2)],
       [mean |-> F(4), var |-> F(0)], [mean |-> F(6), var |-> F(2)],
       [mean |-> F(8), var |-> F(4)] >>

RECURSIVE WSum(_)
WSum(row) == IF row = <<>> THEN 0 ELSE Len(row) * row[Len(row)]
                                       + WSum(SubSeq(row, 1, Len(row) - 1))

\* a fitted forest is some fixed function of the feature row, and with the
\* seed fixed at construction the function is determined by the data
RfResponse(row) == LeafTable[((WSum(row) + rf.variant) % Len(LeafTable)) + 1]

\* a call the forest cannot answer by its fitted function: it was never
\* fitted, or the row is not as wide as the rows it was fitted on
WellPosed(w) == rf.fitted /\ w = StoreWidth(rf.on)

NaNOut == [mean |-> NaN, var |-> NaN]

\* rf.batch_predictions(X)
batch_predictions(X) ==
    IF WellPosed(X.shape[2])
    THEN { [raised |-> "", out |-> [i \in 1..Len(X.data) |-> RfResponse(X.data[i])]] }
    ELSE { [raised |-> "ForestError", out |-> <<>>],
           [raised |-> "", out |-> [i \in 1..Len(X.data) |-> NaNOut]] }

Sq(a) == FMul(a, a)

\* rf.predict_marginalized_over_instances(x_, store): the prediction for the
\* configuration part of x_ joined with each stored instance, averaged;
\* variance = mean of the variances + variance of the means
rf_predict_marginalized(x_, store) ==
    IF ~WellPosed(Len(x_))
    THEN { [raised |-> "ForestError", out |-> NaNOut],
           [raised |-> "", out |-> NaNOut] }
    ELSE LET cfg == SubSeq(x_, 1, Len(x_) - store.ninst)
             n == Len(store.instances)
             p == [i \in 1..n |-> RfResponse(cfg \o store.instances[i])]
             mean == FDivN(FSum([i \in 1..n |-> p[i].mean]), n)
             within == FDivN(FSum([i \in 1..n |-> p[i].var]), n)
             between == FDivN(FSum([i \in 1..n |-> Sq(FSub(p[i].mean, mean))]), n)
         IN { [raised |-> "",
               out |-> [mean |-> mean, var |-> FAdd(within, between)]] }

(* ------------------------------- train --------------------------------- *)

ConfigArgs ==
    UNION { Mat(n, w, ConfigVals) : n \in 1..MaxConfigs, w \in 1..MaxD }

\* a train call hands over at least one sample; the rows of f_map are
\* (configuration index, instance index), in and out of range
FMapArgs == UNION { Mat(p, 2, 0..1) : p \in 1..MaxPts }

YArgs == UNION { Mat(p, 1, Targets) : p \in 1..MaxPts }

TrainArgs == { [configs |-> c, f_map |-> f, y |-> t] :
                 c \in ConfigArgs, f \in FMapArgs, t \in YArgs }

NoArgs == [configs |-> NoArr, f_map |-> NoArr, y |-> NoArr]

ReturnSelf == [Raise("ok", NoMsg, TRUE) EXCEPT !.ret = "self"]

RECURSIVE SumRows(_)
SumRows(rows) == IF rows = <<>> THEN 0
                 ELSE WSum(Head(rows)) + SumRows(Tail(rows))

\* rf.fit(data): the forest is rebuilt on data
rf_fit(store) ==
    [fitted |-> TRUE, on |-> store,
     variant |-> (store.ncfg + Len(store.points) + SumRows(store.configs))
                    % Len(LeafTable)]

\* the outcomes of train(configs, f_map, y): the attributes data and rf
\* after the call, and what the call returned or raised
train(a) ==
    LET y == flatten(a.y)
        store == NewContainer(a.configs)
    IN  IF ~PointsOk(store, a.f_map, y)
        THEN { [data |-> data, rf |-> rf, ok |-> FALSE,
                res |-> Raise("DimensionMismatch", NoMsg, FALSE)] }
        ELSE LET d == add_data_points(store, a.f_map, y)
             IN  { [data |-> d, rf |-> rf, ok |-> FALSE,
                    res |-> Raise("FitError", NoMsg, TRUE)],
                   [data |-> d, rf |-> rf_fit(d), ok |-> TRUE,
                    res |-> ReturnSelf] }

(* ------------------------------ predict -------------------------------- *)

\* the column count is not checked
PredictShapeError_rank_only(X) ==
    IF Len(X.shape) # 2
    THEN Raise("ValueError", RankMsg(X), FALSE)
    ELSE NoError

\* the two shape checks of predict
PredictShapeError(X) ==
    IF Len(X.shape) # 2
    THEN Raise("ValueError", RankMsg(X), FALSE)
    ELSE IF X.shape[2] # Len(types)
         THEN Raise("ValueError", ColsMsg(Len(types), X), FALSE)
         ELSE NoError

Means(out) == [i \in 1..Len(out) |-> out[i].mean]

Variances(out) == [i \in 1..Len(out) |-> out[i].var]

\* what predict returns from the forest's answer
PredictReturn(o) ==
    IF o.raised # ""
    THEN Raise(o.raised, NoMsg, TRUE)
    ELSE Ok(reshape_col(Means(o.out)), reshape_col(Variances(o.out)),
            Variances(o.out))

predict(X) ==
    IF PredictShapeError(X) # NoError
    THEN { PredictShapeError(X) }
    ELSE { PredictReturn(o) : o \in batch_predictions(X) }

(* ----------------- predict_marginalized_over_instances ------------------ *)

\* if var_x < self.var_threshold: var_x = self.var_threshold
RowFloor(v) == IF FLess(v, F(var_thr)) THEN F(var_thr) ELSE v

\* the NaN entries are left alone
ArrFloor_keep_nan(v) ==
    [i \in 1..Len(v) |->
        IF FLess(v[i], F(var_thr)) THEN F(var_thr) ELSE v[i]]

\* var[var < self.var_threshold] = self.var_threshold
\* var[np.isnan(var)] = self.var_threshold
ArrFloor(v) ==
    [i \in 1..Len(v) |->
        LET a == IF FLess(v[i], F(var_thr)) THEN F(var_thr) ELSE v[i]
        IN  IF IsNaN(a) THEN F(var_thr) ELSE a]

\* the branch taken when the instance feature table has no rows
FloorOfPredict(r) ==
    IF r.kind # "ok" THEN r
    ELSE [r EXCEPT !.vars = reshape_col(ArrFloor(flatten(r.vars)))]

\* x_ = np.hstack((x, np.zeros((self.instance_features.shape[1]))))
PadRow(x) == x \o zeros1(instance_features.shape[2])

\* the loop over the rows of X: the forest's answers, or the first failure
RECURSIVE pmoi_loop(_)
pmoi_loop(rows) ==
    IF rows = <<>> THEN { [raised |-> "", out |-> <<>>] }
    ELSE LET first == IF ~data.set
                      THEN { [raised |-> "AttributeError", out |-> NaNOut] }
                      ELSE rf_predict_marginalized(PadRow(Head(rows)), data)
         IN  UNION { IF o.raised # ""
                     THEN { [raised |-> o.raised, out |-> <<>>] }
                     ELSE { IF t.raised # "" THEN t
                            ELSE [raised |-> "", out |-> <<o.out>> \o t.out] :
                              t \in pmoi_loop(Tail(rows)) } :
                     o \in first }

PmoiReturn(o) ==
    IF o.raised # ""
    THEN Raise(o.raised, NoMsg, o.raised # "AttributeError")
    ELSE LET floored == [i \in 1..Len(o.out) |-> RowFloor(o.out[i].var)]
         IN  [Ok(reshape_col(Means(o.out)), reshape_col(ArrFloor(floored)),
                 Variances(o.out))
              EXCEPT !.forest_called = (o.out # <<>>)]

predict_marginalized_over_instances(X) ==
    IF Len(instance_features.data) = 0
    THEN { FloorOfPredict(r) : r \in predict(X) }
    ELSE LET n_instance_features == instance_features.shape[2]
         IN  IF Len(X.shape) # 2
             THEN { Raise("ValueError", RankMsg(X), FALSE) }
             ELSE IF X.shape[2] # Len(types) - n_instance_features
                  THEN { Raise("ValueError",
                               ColsMsg(Len(types) - n_instance_features, X),
                               FALSE) }
                  ELSE { PmoiReturn(o) : o \in pmoi_loop(X.data) }

(* --------------------------- the state machine -------------------------- *)

\* query matrices: every width from 0 to one more than the widest types,
\* with and without rows, and one array each of rank 1 and rank 3 (whose
\* entries no method reads, and which are left out)
XInputs ==
    UNION { Mat(n, w, Vals) : n \in 0..MaxXRows, w \in 0..(MaxD + 1) }
    \cup { [shape |-> <<2>>, data |-> <<>>],
           [shape |-> <<1, 1, 1>>, data |-> <<>>] }

Init ==
    \E t \in TypesArgs, inst \in InstArgs :
        /\ ctor = [types |-> t, instance_features |-> inst]
        /\ types = init_types(t, inst)
        /\ instance_features = init_instance_features(inst)
        /\ hypers = init_hypers(t)
        /\ var_thr = var_threshold
        /\ data = NoData
        /\ rf = Unfitted
        /\ trained_with = NoArgs
        /\ last = [op |-> "init", X |-> NoArr, res |-> NoError]

Train ==
    \E a \in TrainArgs : \E o \in train(a) :
        /\ data' = o.data
        /\ rf' = o.rf
        /\ trained_with' = IF o.ok THEN a ELSE trained_with
        /\ last' = [op |-> "train", X |-> NoArr, res |-> o.res]
        /\ UNCHANGED <<ctor, types, instance_features, hypers, var_thr>>

Predict ==
    \E X \in XInputs : \E r \in predict(X) :
        /\ last' = [op |-> "predict", X |-> X, res |-> r]
        /\ UNCHANGED <<ctor, types, instance_features, hypers, var_thr, data, rf,
                       trained_with>>

PredictMarginalized ==
    \E X \in XInputs : \E r \in predict_marginalized_over_instances(X) :
        /\ last' = [op |-> "predict_marginalized_over_instances", X |-> X,
                    res |-> r]
        /\ UNCHANGED <<ctor, types, instance_features, hypers, var_thr, data, rf,
                       trained_with>>

Next == Train \/ Predict \/ PredictMarginalized

Spec == Init /\ [][Next]_vars

(* ------------------------------ properties ----------------------------- *)

\* some train call has succeeded
Trained == rf.fitted

\* the model was constructed without instance features
NoInstanceFeatures == ctor.instance_features.none

IsMatrix(X) == Len(X.shape) = 2

PMOI == "predict_marginalized_over_instances"

\* a variance that is a number and not below the threshold
Floored(v) == ~v.nan /\ v.val >= var_threshold

\* X with one more column, of zeros
PadZeroColumn(X) ==
    Arr2([i \in 1..Len(X.data) |-> X.data[i] \o <<0>>], X.shape[2] + 1)

\* C1: on a trained model (the forest fitted on rows as wide as types is
\* long), every variance predict returns is a number and is at least
\* var_threshold, whatever the forest reported.
C1_PredictVarianceFloor ==
    (last.op = "predict" /\ last.res.kind = "ok" /\ Trained
     /\ WellPosed(Len(types)))
    => \A i \in 1..Len(last.res.vars.data) : Floored(last.res.vars.data[i][1])

C3_MarginalizedVarianceFloor ==
    (last.op = PMOI /\ last.res.kind = "ok" /\ Trained)
    => \A i \in 1..Len(last.res.vars.data) :
          LET v == last.res.vars.data[i][1]
              r == last.res.raw[i]
          IN  /\ Floored(v)
              /\ (r.nan \/ r.val < var_threshold) => v = F(var_threshold)
              /\ (~r.nan /\ r.val >= var_threshold) => v = r

\* C3 witness: the fitted forest reported NaN for a row, and a result came back
C3_Witness ==
    /\ last.op = PMOI /\ last.res.kind = "ok" /\ Trained
    /\ WellPosed(Len(types))
    /\ \E i \in 1..Len(last.res.raw) : last.res.raw[i].nan

\* C4: predict_marginalized_over_instances refuses, before the forest is
\* called, every matrix whose column count is not the length of types minus
\* the instance feature width.
C4_MarginalizedShapeError ==
    (last.op = PMOI /\ IsMatrix(last.X)
     /\ last.X.shape[2] # Len(types) - instance_features.shape[2])
    => (last.res.kind = "ValueError" /\ ~last.res.forest_called)

\* C5: before any successful train, predict and
\* predict_marginalized_over_instances on a shape-valid X raise InvalidState.
C5_PredictRequiresTrain ==
    (last.op \in {"predict", PMOI} /\ ~Trained /\ last.res.kind # "ValueError")
    => last.res.kind = "InvalidState"

\* C6: on a trained model constructed without instance features, predict on
\* a matrix with only the configuration columns succeeds and returns what it
\* returns for the same matrix with a column of zeros appended.
C6_PredictImplicitDummy ==
    (last.op = "predict" /\ NoInstanceFeatures /\ Trained /\ IsMatrix(last.X)
     /\ last.X.shape[2] = Len(ctor.types))
    => (last.res.kind = "ok" /\ last.res \in predict(PadZeroColumn(last.X)))

\* C7: on a trained model constructed without instance features,
\* predict_marginalized_over_instances on the configuration columns returns
\* what predict returns on the matrix padded with a column of zeros, with
\* the variances below the threshold or NaN replaced by the threshold.
C7_MarginalizedDegenerates ==
    (last.op = PMOI /\ NoInstanceFeatures /\ Trained /\ IsMatrix(last.X)
     /\ last.X.shape[2] = Len(ctor.types))
    => \E r \in predict(PadZeroColumn(last.X)) :
          /\ last.res.kind = r.kind
          /\ last.res.means = r.means
          /\ r.kind = "ok" =>
               /\ last.res.vars.shape = r.vars.shape
               /\ \A i \in 1..Len(r.vars.data) :
                     LET p == r.vars.data[i][1]
                     IN  last.res.vars.data[i][1]
                           = IF p.nan \/ p.val < var_threshold
                             THEN F(var_threshold) ELSE p

\* C7 witness: such a call was answered by the fitted forest, with a variance
\* below the threshold for a row
C7_Witness ==
    /\ last.op = PMOI /\ NoInstanceFeatures /\ Trained
    /\ WellPosed(Len(types)) /\ last.res.kind = "ok"
    /\ \E i \in 1..Len(last.res.raw) :
          FLess(last.res.raw[i], F(var_threshold))

\* C8: a successful train returns the model, stores the data of its own
\* arguments and nothing else, fits the forest on that data, and leaves
\* types, instance_features, var_threshold and the hyperparameters alone.
C8_TrainReplaces ==
    [][ (last'.op = "train" /\ last'.res.kind = "ok")
        => /\ last'.res.ret = "self"
           /\ data'.set
           /\ data'.configs = trained_with'.configs.data
           /\ data'.instances = instance_features.data
           /\ Len(data'.points) = Len(trained_with'.y.data)
           /\ \A i \in 1..Len(data'.points) :
                 /\ data'.points[i].c = trained_with'.f_map.data[i][1]
                 /\ data'.points[i].i = trained_with'.f_map.data[i][2]
                 /\ data'.points[i].y = trained_with'.y.data[i][1]
           /\ rf'.fitted /\ rf'.on = data'
           /\ UNCHANGED <<types, instance_features, var_thr, hypers>> ]_vars

\* C8 witness: a train call on a non-empty sample set has succeeded
C8_Witness ==
    /\ last.op = "train" /\ last.res.kind = "ok"
    /\ data.points # <<>> /\ rf.on = data

\* C9: after a successful train the stored rows are as wide as types is
\* long; a train call with configurations of another width does not succeed.
C9_StoredWidthMatchesTypes ==
    (last.op = "train" /\ last.res.kind = "ok")
    => StoreWidth(data) = Len(types)

\* C10: the stored data and the fitted forest always come from the same
\* train call, also after a train call that failed.
C10_DataAndForestAgree ==
    (data.set /\ rf.fitted) => rf.on = data

====
